---- MODULE Spec2Model ----
(***************************************************************************)
(* Model of the etf-compare scraper (src/scraper.py) and of the dashboard  *)
(* handler that drives it (src/app.py).                                    *)
(*                                                                         *)
(* Text is modelled as a sequence of tokens (words and numerals), so that  *)
(* str.lower(), the `in` substring tests and the regular expressions of    *)
(* the scraper are computed, not assumed.  A Python float is modelled by   *)
(* an integer count of halves (9.5 is 19); the numerals of the model have  *)
(* the fraction digit 0 or 5 only, so every float operation of the code    *)
(* (float(), x - 3.0, ==) is exact on them.  None is the empty sequence    *)
(* and a float x is the one-element sequence <<x>>.                        *)
(***************************************************************************)
EXTENDS Integers, Sequences, FiniteSets, TLC

----------------------------------------------------------------------------
(* Tokens of a text                                                        *)

\* a word; cap says that it is not all lower case ("Return" vs "return")
Word(s) == [kind |-> "word", s |-> s, cap |-> FALSE, ip |-> 0, fd |-> 0]
CapWord(s) == [kind |-> "word", s |-> s, cap |-> TRUE, ip |-> 0, fd |-> 0]
\* the numeral "ip.fd%" : digits, a dot, digits, a percent sign
Pct(ip, fd) == [kind |-> "pct", s |-> "", cap |-> FALSE, ip |-> ip, fd |-> fd]
\* the numeral "ip%" : digits and a percent sign, no decimal point
IntPct(ip) == [kind |-> "intpct", s |-> "", cap |-> FALSE, ip |-> ip, fd |-> 0]
\* a word that holds digits, such as "30Y"
Alnum(s) == [kind |-> "alnum", s |-> s, cap |-> TRUE, ip |-> 0, fd |-> 0]

Words(ss) == [k \in DOMAIN ss |-> Word(ss[k])]
CapWords(ss) == [k \in DOMAIN ss |-> CapWord(ss[k])]

None == <<>>
Some(x) == <<x>>
Val(o) == o[1]

\* float("ip.fd") in halves
ParseFloat(tok) == 2 * tok.ip + (IF tok.fd = 5 THEN 1 ELSE 0)

\* str.lower()
Lower(text) == [k \in DOMAIN text |-> [text[k] EXCEPT !.cap = FALSE]]

\* the lower-case words of phrase occur at position k of text
PhraseAt(text, phrase, k) ==
    /\ k >= 1
    /\ k + Len(phrase) - 1 <= Len(text)
    /\ \A j \in 1..Len(phrase) :
          /\ text[k + j - 1].kind = "word"
          /\ text[k + j - 1].s = phrase[j]
          /\ ~ text[k + j - 1].cap

\* phrase in text
Contains(text, phrase) == \E k \in 1..Len(text) : PhraseAt(text, phrase, k)

\* '%' in text
HasPercent(text) == \E k \in 1..Len(text) : text[k].kind \in {"pct", "intpct"}

HasDigit(tok) == tok.kind \in {"pct", "intpct", "alnum"}

Min(S) == CHOOSE x \in S : \A y \in S : x <= y

\* Python truthiness of an optional float: None and 0.0 are both false
Truthy(o) == o # None /\ Val(o) # 0

----------------------------------------------------------------------------
(* The regular expressions of the scraper.  Each operator returns the set  *)
(* of positions where the pattern matches; re.search takes the leftmost.   *)

\* (\d+\.\d+)%\s+compound annual return
NominalMatches(text) ==
    {k \in 1..Len(text) :
        /\ text[k].kind = "pct"
        /\ PhraseAt(text, <<"compound", "annual", "return">>, k + 1)}

\* with a\s+(\d+\.\d+)%\s+standard deviation ; the position of the numeral
StdDevMatches(text) ==
    {k \in 1..Len(text) :
        /\ text[k].kind = "pct"
        /\ PhraseAt(text, <<"with", "a">>, k - 2)
        /\ PhraseAt(text, <<"standard", "deviation">>, k + 1)}

\* (\d+\.\d+)%\s+inflation adjusted
RealMatches(text) ==
    {k \in 1..Len(text) :
        /\ text[k].kind = "pct"
        /\ PhraseAt(text, <<"inflation", "adjusted">>, k + 1)}

\* re.search(...).group(1) as a float, or None when nothing matches
FirstNumeral(text, matches) ==
    IF matches = {} THEN None ELSE Some(ParseFloat(text[Min(matches)]))

\* keyword[^\d]*(\d+\.\d+)% on a lower-cased text: the keyword starts at
\* k, [^\d]* runs up to the first token that holds a digit, and that token
\* has to be a decimal percentage.  The result is the set of keyword
\* positions where the pattern matches.
FirstDigitAfter(text, k) ==
    LET ds == {j \in (k + 1)..Len(text) : HasDigit(text[j])}
    IN  IF ds = {} THEN 0 ELSE Min(ds)

KeywordMatches(text, keywords) ==
    {k \in 1..Len(text) :
        /\ \E kw \in keywords : PhraseAt(text, kw, k)
        /\ FirstDigitAfter(text, k) # 0
        /\ text[FirstDigitAfter(text, k)].kind = "pct"}

KeywordNumeral(text, keywords) ==
    LET ms == KeywordMatches(text, keywords)
    IN  IF ms = {} THEN None
        ELSE Some(ParseFloat(text[FirstDigitAfter(text, Min(ms))]))

ReturnKeywords == {<<"annual">>, <<"return">>, <<"cagr">>}
StdKeywords == {<<"standard", "deviation">>, <<"std">>, <<"volatility">>}

----------------------------------------------------------------------------
(* scrape_lazyportfolio_30y_metrics                                        *)

\* the inflation the code assumes, 3.0, in halves
Inflation == 6

\* retorno_30y_nominal, retorno_30y_real, desvio_estandar after their
\* initialisation to None
InitialMetrics == [nominal |-> None, real |-> None, std |-> None]

\* the test that guards the body of the paragraph loop
IsMetricParagraph(text) ==
    /\ Contains(Lower(text), <<"compound", "annual", "return">>)
    /\ Contains(Lower(text), <<"standard", "deviation">>)

\* one iteration of the paragraph loop, up to the break test
ScanParagraph(st, text) ==
    IF ~ IsMetricParagraph(text) THEN st
    ELSE LET nm == FirstNumeral(text, NominalMatches(text))
             sm == FirstNumeral(text, StdDevMatches(text))
             rm == IF Contains(Lower(text), <<"inflation", "adjusted">>)
                   THEN FirstNumeral(text, RealMatches(text))
                   ELSE None
         IN  [nominal |-> IF nm # None THEN nm ELSE st.nominal,
              std     |-> IF sm # None THEN sm ELSE st.std,
              real    |-> IF rm # None THEN rm ELSE st.real]

\* the break at the end of an iteration of the paragraph loop
ParagraphBreaks(st, text) ==
    IsMetricParagraph(text) /\ Truthy(st.nominal) /\ Truthy(st.std)

RECURSIVE ScanParagraphs(_, _)
ScanParagraphs(st, paras) ==
    IF paras = <<>> THEN st
    ELSE LET st1 == ScanParagraph(st, Head(paras))
         IN  IF ParagraphBreaks(st1, Head(paras)) THEN st1
             ELSE ScanParagraphs(st1, Tail(paras))

\* the test that opens the second approach
NeedsContainers(st) == ~ Truthy(st.nominal) \/ ~ Truthy(st.std)

Markers == {"metric", "stat", "result", "data"}

\* the lambda given to find_all for class_ and for id
IsMarked(attr) ==
    attr # <<>> /\ \E m \in Markers : Contains(Lower(attr), <<m>>)

\* metric_containers: the divs with a marked class, then those with a
\* marked id, each in document order
MetricContainers(divs) ==
    SelectSeq(divs, LAMBDA d : IsMarked(d.cls))
        \o SelectSeq(divs, LAMBDA d : IsMarked(d.id))

\* one iteration of the container loop
ScanContainer(st, text) ==
    IF HasPercent(text)
          /\ \E kw \in ReturnKeywords : Contains(Lower(text), kw)
    THEN LET nm == IF ~ Truthy(st.nominal)
                   THEN KeywordNumeral(Lower(text), ReturnKeywords)
                   ELSE None
             st1 == [st EXCEPT !.nominal = IF nm # None THEN nm ELSE @]
             sm == IF ~ Truthy(st1.std)
                   THEN KeywordNumeral(Lower(text), StdKeywords)
                   ELSE None
         IN  [st1 EXCEPT !.std = IF sm # None THEN sm ELSE @]
    ELSE st

RECURSIVE ScanContainers(_, _)
ScanContainers(st, conts) ==
    IF conts = <<>> THEN st
    ELSE ScanContainers(ScanContainer(st, Head(conts).text), Tail(conts))

\* the estimate of a real return that was not found
EstimateReal(st) ==
    IF Truthy(st.nominal) /\ ~ Truthy(st.real)
    THEN [st EXCEPT !.real = Some(Val(st.nominal) - Inflation)]
    ELSE st

\* missing_metrics
MissingMetrics(st) ==
    (IF st.nominal = None THEN <<"30Y nominal return">> ELSE <<>>)
        \o (IF st.std = None THEN <<"standard deviation">> ELSE <<>>)

\* ', '.join(names)
RECURSIVE Join(_)
Join(names) ==
    IF Len(names) <= 1 THEN names
    ELSE <<Head(names), ",">> \o Join(Tail(names))

Raise(exc, msg) == [kind |-> "raise", exc |-> exc, msg |-> msg]

MissingMetricsError(url, st) ==
    Raise("ValueError",
          <<"Missing", "critical", "metrics", "for", url, ":">>
              \o Join(MissingMetrics(st)))

\* what Python raises for None / float
NoneDivisionError ==
    Raise("TypeError", <<"unsupported", "operand", "type(s)", "for", "/",
                         ":", "'NoneType'", "and", "'float'">>)

RECURSIVE GCD(_, _)
GCD(a, b) == IF b = 0 THEN a ELSE GCD(b, a % b)

Abs(x) == IF x < 0 THEN 0 - x ELSE x

\* the float a / b for b > 0, as a fraction in lowest terms
Quotient(a, b) ==
    LET g == GCD(Abs(a), b)
    IN  <<a \div g, b \div g>>

\* x / desvio_estandar if desvio_estandar != 0 else 0
Sharpe(x, std) == IF Val(std) # 0 THEN Quotient(Val(x), Val(std)) ELSE <<0, 1>>

\* IsEstimated without the inflation: retorno_30y_real == retorno_30y_nominal
IsEstimatedForgetsInflation(st) == st.real = Some(Val(st.nominal))

\* retorno_30y_real == retorno_30y_nominal - 3.0
IsEstimated(st) == st.real = Some(Val(st.nominal) - Inflation)

\* the validation, the ratios and the returned dict (scrape_time, the time
\* of the call, is left out)
Finish(url, nombre, st0) ==
    LET st == EstimateReal(st0)
    IN  IF MissingMetrics(st) # <<>> THEN MissingMetricsError(url, st)
        ELSE IF Val(st.std) # 0 /\ st.real = None THEN NoneDivisionError
        ELSE [kind |-> "record",
              rec |-> [name |-> nombre,
                       url |-> url,
                       nominal_30y_return |-> st.nominal,
                       real_30y_return |-> st.real,
                       std_deviation |-> st.std,
                       nominal_sharpe |-> Sharpe(st.nominal, st.std),
                       real_sharpe |-> Sharpe(st.real, st.std),
                       is_real_return_estimated |-> IsEstimated(st)]]

\* text.split('|')[0]
RECURSIVE BeforeBar(_)
BeforeBar(text) ==
    IF text = <<>> \/ Head(text) = Word("|") THEN <<>>
    ELSE <<Head(text)>> \o BeforeBar(Tail(text))

NameNotFound == <<CapWord("name"), Word("not"), Word("found")>>

\* ResolveName that looks at the title before the h1
ResolveNameTitleFirst(doc) ==
    IF doc.title # <<>> THEN BeforeBar(doc.title[1])
    ELSE IF doc.h1 # <<>> THEN doc.h1[1]
    ELSE NameNotFound

\* nombre; an absent element is <<>>, a present one is <<its text>>
ResolveName(doc) ==
    IF doc.h1 # <<>> THEN doc.h1[1]
    ELSE IF doc.title # <<>> THEN BeforeBar(doc.title[1])
    ELSE NameNotFound

\* the metrics after both approaches
ExtractMetrics(doc) ==
    LET st1 == ScanParagraphs(InitialMetrics, doc.paras)
    IN  IF NeedsContainers(st1)
        THEN ScanContainers(st1, MetricContainers(doc.divs))
        ELSE st1

\* everything after the fetch
Extract(url, doc) == Finish(url, ResolveName(doc), ExtractMetrics(doc))

\* response.raise_for_status() raises for 4xx and 5xx
RaisesForStatus(status) == 400 <= status /\ status < 600

\* the fetch raised requests.exceptions.RequestException
FetchFails(page) ==
    page.net = "error" \/ (page.net = "ok" /\ RaisesForStatus(page.status))

FetchError(url, page) ==
    Raise("ValueError",
          <<"Error", "fetching", "URL", url, ":",
            IF page.net = "error" THEN "ConnectionError" ELSE "HTTPError">>)

\* the whole call for a page that answers
Scrape(url, page) ==
    IF FetchFails(page) THEN FetchError(url, page)
    ELSE Extract(url, page.doc)

----------------------------------------------------------------------------
(* The inputs of the model                                                 *)

MaxUrls == 3
MaxParas == 2
MaxConts == 2

\* two of the addresses of get_default_urls
EtfUrl == "https://www.lazyportfolioetf.com/etf/spdr-sp-500-spy/"
AllocationUrl == "https://www.lazyportfolioetf.com/allocation/golden-butterfly/"
URLs == {EtfUrl, AllocationUrl}

CompoundAnnualReturn == <<"compound", "annual", "return">>
StandardDeviation == <<"standard", "deviation">>
InflationAdjusted == <<"inflation", "adjusted">>

\* "<x>% compound annual return", the same in title case, the phrase
\* without a numeral, and nothing
NominalClauses(nums) ==
    {<<>>, Words(CompoundAnnualReturn)}
        \cup {<<Pct(n[1], n[2])>> \o Words(CompoundAnnualReturn) : n \in nums}
        \cup {<<Pct(n[1], n[2])>> \o CapWords(CompoundAnnualReturn) : n \in nums}

\* "with a <y>% standard deviation", the same in title case, the same
\* without "with a", and nothing
StdClauses(nums) ==
    {<<>>}
        \cup {Words(<<"with", "a">>) \o <<Pct(n[1], n[2])>>
                 \o Words(StandardDeviation) : n \in nums}
        \cup {Words(<<"with", "a">>) \o <<Pct(n[1], n[2])>>
                 \o CapWords(StandardDeviation) : n \in nums}
        \cup {<<Pct(n[1], n[2])>> \o Words(StandardDeviation) : n \in nums}

\* "<r>% inflation adjusted", "inflation adjusted <r>%", and nothing
RealClauses(nums) ==
    {<<>>}
        \cup {<<Pct(n[1], n[2])>> \o Words(InflationAdjusted) : n \in nums}
        \cup {Words(InflationAdjusted) \o <<Pct(n[1], n[2])>> : n \in nums}

ParagraphsOver(noms, stds, reals) ==
    {a \o b \o c : a \in NominalClauses(noms), b \in StdClauses(stds),
                   c \in RealClauses(reals)}

ParagraphTexts ==
    ParagraphsOver({<<0, 0>>, <<3, 0>>, <<9, 5>>}, {<<0, 0>>, <<14, 0>>},
                   {<<0, 0>>, <<6, 5>>})

\* the labels of a statistics block of the site, and variations of them
ReturnLabels(nums) ==
    {<<>>}
        \cup {<<Alnum("30y"), CapWord("return"), Pct(n[1], n[2])>> : n \in nums}
        \cup {<<Word("cagr"), Pct(n[1], n[2])>> : n \in nums}
        \cup {<<CapWord("return"), IntPct(10), Pct(n[1], n[2])>> : n \in nums}

RealLabels(nums) ==
    {<<>>}
        \cup {<<Alnum("30y")>> \o CapWords(<<"inflation", "adjusted", "return">>)
                 \o <<Pct(n[1], n[2])>> : n \in nums}

StdLabels(nums) ==
    {<<>>}
        \cup {CapWords(<<"std", "deviation">>) \o <<Pct(n[1], n[2])>> : n \in nums}
        \cup {<<Word("volatility"), Pct(n[1], n[2])>> : n \in nums}

ContainersOver(noms, stds, reals) ==
    {a \o b \o c : a \in ReturnLabels(noms), b \in RealLabels(reals),
                   c \in StdLabels(stds)}

ContainerTexts ==
    ContainersOver({<<0, 0>>, <<9, 5>>}, {<<0, 0>>, <<14, 0>>}, {<<6, 5>>})

\* the h1 and title elements of a page
Heads ==
    {[h1 |-> <<>>, title |-> <<>>],
     [h1 |-> <<<<CapWord("golden"), CapWord("butterfly")>>>>, title |-> <<>>],
     [h1 |-> <<>>,
      title |-> <<<<CapWord("spy"), Word("|"), CapWord("lazy")>>>>],
     [h1 |-> <<<<CapWord("golden"), CapWord("butterfly")>>>>,
      title |-> <<<<CapWord("spy"), Word("|"), CapWord("lazy")>>>>]}

Doc(head, paras, divs) ==
    [h1 |-> head.h1, title |-> head.title, paras |-> paras, divs |-> divs]

NamedHead == [h1 |-> <<<<CapWord("golden"), CapWord("butterfly")>>>>, title |-> <<>>]

\* the documents the batch is run on: one paragraph each
\* the paragraph of a page of the site
GoodParagraph ==
    <<Pct(9, 5)>> \o Words(CompoundAnnualReturn) \o Words(<<"with", "a">>)
        \o <<Pct(14, 0)>> \o Words(StandardDeviation)

\* the paragraphs the batch is run on: none, and those made of a return
\* clause, a deviation clause and, or not, a real return clause
BatchParagraphs ==
    {<<>>} \cup
    {a \o b \o c :
        a \in {Words(CompoundAnnualReturn),
               <<Pct(0, 0)>> \o Words(CompoundAnnualReturn),
               <<Pct(9, 5)>> \o Words(CompoundAnnualReturn)},
        b \in {Words(<<"with", "a">>) \o <<Pct(0, 0)>> \o Words(StandardDeviation),
               Words(<<"with", "a">>) \o <<Pct(14, 0)>> \o Words(StandardDeviation),
               <<Pct(14, 0)>> \o Words(StandardDeviation)},
        c \in {<<>>, <<Pct(6, 5)>> \o Words(InflationAdjusted)}}

BatchDocs == {Doc(NamedHead, <<p>>, <<>>) : p \in BatchParagraphs}

NoDoc == Doc(NamedHead, <<>>, <<>>)

\* what a server answers: a response with a status and a body, a
\* network-level failure, or nothing at all
Answer(status, doc) == [net |-> "ok", status |-> status, doc |-> doc]
NetworkFailure == [net |-> "error", status |-> 0, doc |-> NoDoc]
Unresponsive == [net |-> "hang", status |-> 0, doc |-> NoDoc]

BatchPages ==
    {Answer(200, d) : d \in BatchDocs}
        \cup {Answer(304, Doc(NamedHead, <<GoodParagraph>>, <<>>)),
              Answer(304, NoDoc), Answer(404, NoDoc), Answer(500, NoDoc),
              NetworkFailure, Unresponsive}

RECURSIVE SeqsUpTo(_, _)
SeqsUpTo(S, n) ==
    IF n = 0 THEN {<<>>}
    ELSE LET shorter == SeqsUpTo(S, n - 1)
         IN  shorter \cup {Append(q, x) : q \in shorter, x \in S}

----------------------------------------------------------------------------
(* State                                                                   *)

VARIABLES
    urls,      \* the argument of scrape_multiple_lazyportfolio_30y_metrics
    web,       \* what each address answers
    i,         \* the position of the batch loop, from 1
    datos,     \* the records of the batch
    errors,    \* the failure entries of the batch
    pc,        \* where the batch is: "idle", "fetch", "extract", "returned"
    result,    \* the returned pair
    epc,       \* where one extraction is: "idle", "call", "paragraphs",
               \* "containers", "finish", "done"
    eurl,      \* the url of the extraction
    nombre,    \* the name resolved for it
    metrics,   \* retorno_30y_nominal, retorno_30y_real, desvio_estandar
    nparas,    \* paragraphs scanned
    nconts,    \* containers scanned
    eout,      \* what the extraction returned or raised
    matched,   \* some pattern has matched in an element scanned so far
    session_data,    \* st.session_state.data
    session_urls,    \* st.session_state.urls
    session_errors,  \* st.session_state.errors
    ui               \* the messages the last 'Fetch Data' showed

batchVars == <<urls, web, i, datos, errors, pc, result>>
extVars == <<epc, eurl, nombre, metrics, nparas, nconts, eout, matched>>
appVars == <<session_data, session_urls, session_errors, ui>>
vars == <<urls, web, i, datos, errors, pc, result,
          epc, eurl, nombre, metrics, nparas, nconts, eout, matched,
          session_data, session_urls, session_errors, ui>>

NoResult == [df |-> <<>>, errors |-> <<>>]
NoOut == [kind |-> "none"]

BatchIdle ==
    /\ urls = <<>>
    /\ web = [u \in URLs |-> NetworkFailure]
    /\ i = 1
    /\ datos = <<>>
    /\ errors = <<>>
    /\ pc = "idle"
    /\ result = NoResult

ExtractionIdle ==
    /\ epc = "idle"
    /\ eurl = EtfUrl
    /\ nombre = NameNotFound
    /\ metrics = InitialMetrics
    /\ nparas = 0
    /\ nconts = 0
    /\ eout = NoOut
    /\ matched = FALSE

\* the session state before the dashboard has set its defaults
AppIdle ==
    /\ session_data = None
    /\ session_urls = <<>>
    /\ session_errors = <<>>
    /\ ui = <<>>

----------------------------------------------------------------------------
(* scrape_multiple_lazyportfolio_30y_metrics, one step per fetch and per   *)
(* extraction                                                              *)

\* a call with any list of addresses, on any web
Init ==
    /\ urls \in SeqsUpTo(URLs, MaxUrls)
    /\ web \in [URLs -> BatchPages]
    /\ i = 1
    /\ datos = <<>>
    /\ errors = <<>>
    /\ pc = "fetch"
    /\ result = NoResult
    /\ ExtractionIdle
    /\ AppIdle

\* except Exception as e: errors.append({"url": url, "error": str(e)})
ErrorDetail(url, exc) == [url |-> url, error |-> exc.msg]

\* requests.get and raise_for_status for urls[i]; a failure is caught by
\* the batch and the loop goes on
Fetch ==
    /\ pc = "fetch"
    /\ i <= Len(urls)
    /\ web[urls[i]].net # "hang"
    /\ IF FetchFails(web[urls[i]])
       THEN /\ errors' = Append(errors, ErrorDetail(urls[i], FetchError(urls[i], web[urls[i]])))
            /\ i' = i + 1
            /\ pc' = "fetch"
       ELSE /\ pc' = "extract"
            /\ UNCHANGED <<errors, i>>
    /\ UNCHANGED <<urls, web, datos, result>>
    /\ UNCHANGED <<extVars, appVars>>

\* ExtractSource with "except: pass": a failure leaves no entry
ExtractSourceSkipsError ==
    /\ pc = "extract"
    /\ LET out == Extract(urls[i], web[urls[i]].doc)
       IN  IF out.kind = "record"
           THEN /\ datos' = Append(datos, out.rec)
                /\ UNCHANGED errors
           ELSE UNCHANGED <<datos, errors>>
    /\ i' = i + 1
    /\ pc' = "fetch"
    /\ UNCHANGED <<urls, web, result>>
    /\ UNCHANGED <<extVars, appVars>>

\* ExtractSource with "except ValueError": any other exception leaves the
\* batch
ExtractSourceCatchesValueError ==
    /\ pc = "extract"
    /\ LET out == Extract(urls[i], web[urls[i]].doc)
       IN  IF out.kind = "record"
           THEN /\ datos' = Append(datos, out.rec)
                /\ i' = i + 1
                /\ pc' = "fetch"
                /\ UNCHANGED errors
           ELSE IF out.exc = "ValueError"
           THEN /\ errors' = Append(errors, ErrorDetail(urls[i], out))
                /\ i' = i + 1
                /\ pc' = "fetch"
                /\ UNCHANGED datos
           ELSE /\ pc' = "raised"
                /\ UNCHANGED <<datos, errors, i>>
    /\ UNCHANGED <<urls, web, result>>
    /\ UNCHANGED <<extVars, appVars>>

\* ExtractSource with datos.insert(0, metricas)
ExtractSourcePrepends ==
    /\ pc = "extract"
    /\ LET out == Extract(urls[i], web[urls[i]].doc)
       IN  IF out.kind = "record"
           THEN /\ datos' = <<out.rec>> \o datos
                /\ UNCHANGED errors
           ELSE /\ errors' = Append(errors, ErrorDetail(urls[i], out))
                /\ UNCHANGED datos
    /\ i' = i + 1
    /\ pc' = "fetch"
    /\ UNCHANGED <<urls, web, result>>
    /\ UNCHANGED <<extVars, appVars>>

\* ExtractSource with the three metrics kept from the previous record
\* instead of being set to None at the start of the call
ExtractSourceCarriesOver ==
    /\ pc = "extract"
    /\ LET doc == web[urls[i]].doc
           st0 == IF datos = <<>> THEN InitialMetrics
                  ELSE [nominal |-> datos[Len(datos)].nominal_30y_return,
                        real |-> datos[Len(datos)].real_30y_return,
                        std |-> datos[Len(datos)].std_deviation]
           st1 == ScanParagraphs(st0, doc.paras)
           st2 == IF NeedsContainers(st1)
                  THEN ScanContainers(st1, MetricContainers(doc.divs))
                  ELSE st1
           out == Finish(urls[i], ResolveName(doc), st2)
       IN  IF out.kind = "record"
           THEN /\ datos' = Append(datos, out.rec)
                /\ UNCHANGED errors
           ELSE /\ errors' = Append(errors, ErrorDetail(urls[i], out))
                /\ UNCHANGED datos
    /\ i' = i + 1
    /\ pc' = "fetch"
    /\ UNCHANGED <<urls, web, result>>
    /\ UNCHANGED <<extVars, appVars>>

\* the rest of the call for urls[i], and the append of its outcome
ExtractSource ==
    /\ pc = "extract"
    /\ LET out == Extract(urls[i], web[urls[i]].doc)
       IN  IF out.kind = "record"
           THEN /\ datos' = Append(datos, out.rec)
                /\ UNCHANGED errors
           ELSE /\ errors' = Append(errors, ErrorDetail(urls[i], out))
                /\ UNCHANGED datos
    /\ i' = i + 1
    /\ pc' = "fetch"
    /\ UNCHANGED <<urls, web, result>>
    /\ UNCHANGED <<extVars, appVars>>

\* the end of the loop: return pd.DataFrame(datos), errors
Return ==
    /\ pc = "fetch"
    /\ i > Len(urls)
    /\ result' = [df |-> datos, errors |-> errors]
    /\ pc' = "returned"
    /\ UNCHANGED <<urls, web, i, datos, errors>>
    /\ UNCHANGED <<extVars, appVars>>

Next == Fetch \/ ExtractSource \/ Return

Spec == Init /\ [][Next]_vars

----------------------------------------------------------------------------
(* One call of scrape_lazyportfolio_30y_metrics after a successful fetch,  *)
(* one step per element of the page.  The page is read as it is scanned:   *)
(* each step takes the next paragraph or container from the texts of the   *)
(* model.                                                                  *)

InitExtract ==
    /\ BatchIdle
    /\ AppIdle
    /\ epc = "paragraphs"
    /\ eurl \in URLs
    /\ nombre \in {ResolveName(h) : h \in Heads}
    /\ metrics = InitialMetrics
    /\ nparas = 0
    /\ nconts = 0
    /\ eout = NoOut
    /\ matched = FALSE

\* some pattern of the paragraph loop matches in text
ParagraphPatternMatches(text) ==
    NominalMatches(text) \cup StdDevMatches(text) \cup RealMatches(text) # {}

\* some pattern of the container loop matches in text
ContainerPatternMatches(text) ==
    KeywordMatches(Lower(text), ReturnKeywords)
        \cup KeywordMatches(Lower(text), StdKeywords) # {}

\* where the call goes after the paragraph loop
AfterParagraphs(st) == IF NeedsContainers(st) THEN "containers" ELSE "finish"

\* one iteration of the paragraph loop
ExtractParagraph ==
    /\ epc = "paragraphs"
    /\ nparas < MaxParas
    /\ \E text \in ParagraphTexts :
          LET st == ScanParagraph(metrics, text)
          IN  /\ metrics' = st
              /\ matched' = (matched \/ ParagraphPatternMatches(text))
              /\ epc' = IF ParagraphBreaks(st, text)
                        THEN AfterParagraphs(st) ELSE "paragraphs"
    /\ nparas' = nparas + 1
    /\ UNCHANGED <<eurl, nombre, nconts, eout>>
    /\ UNCHANGED <<batchVars, appVars>>

\* the paragraph loop runs out of paragraphs
EndParagraphs ==
    /\ epc = "paragraphs"
    /\ epc' = AfterParagraphs(metrics)
    /\ UNCHANGED <<eurl, nombre, metrics, nparas, nconts, eout, matched>>
    /\ UNCHANGED <<batchVars, appVars>>

\* one iteration of the container loop
ExtractContainer ==
    /\ epc = "containers"
    /\ nconts < MaxConts
    /\ \E text \in ContainerTexts :
          /\ metrics' = ScanContainer(metrics, text)
          /\ matched' = (matched \/ ContainerPatternMatches(text))
    /\ nconts' = nconts + 1
    /\ UNCHANGED <<epc, eurl, nombre, nparas, eout>>
    /\ UNCHANGED <<batchVars, appVars>>

\* the container loop runs out of containers
EndContainers ==
    /\ epc = "containers"
    /\ epc' = "finish"
    /\ UNCHANGED <<eurl, nombre, metrics, nparas, nconts, eout, matched>>
    /\ UNCHANGED <<batchVars, appVars>>

\* the estimate, the validation and the return; metrics keeps what the
\* scans found
FinishExtraction ==
    /\ epc = "finish"
    /\ eout' = Finish(eurl, nombre, metrics)
    /\ epc' = "done"
    /\ UNCHANGED <<eurl, nombre, metrics, nparas, nconts, matched>>
    /\ UNCHANGED <<batchVars, appVars>>

NextExtract ==
    \/ ExtractParagraph
    \/ EndParagraphs
    \/ ExtractContainer
    \/ EndContainers
    \/ FinishExtraction

SpecExtract == InitExtract /\ [][NextExtract]_vars

----------------------------------------------------------------------------
(* One call of scrape_lazyportfolio_30y_metrics on a page known in full    *)

MaxPageParas == 1
MaxPageDivs == 1

\* the narrative sentence of the site and variations of it: the return
\* clause in lower case, in title case and with 0.0, the deviation clause,
\* and a real return clause
PageParagraphs ==
    {a \o b \o c :
        a \in {<<>>,
               <<Pct(9, 5)>> \o Words(CompoundAnnualReturn),
               <<Pct(9, 5)>> \o CapWords(CompoundAnnualReturn),
               <<Pct(0, 0)>> \o Words(CompoundAnnualReturn)},
        b \in {<<>>,
               Words(<<"with", "a">>) \o <<Pct(14, 0)>>
                   \o Words(StandardDeviation)},
        c \in {<<>>, <<Pct(6, 0)>> \o Words(InflationAdjusted)}} \ {<<>>}

\* the three labels of the statistics block of the site
ReturnLabel == <<Alnum("30y"), CapWord("return"), Pct(9, 5)>>
RealLabel ==
    <<Alnum("30y")>> \o CapWords(<<"inflation", "adjusted", "return">>)
        \o <<Pct(6, 0)>>
StdLabel == CapWords(<<"std", "deviation">>) \o <<Pct(14, 0)>>

WholeBlock == ReturnLabel \o RealLabel \o StdLabel

\* the block, whole or with labels left out
PageBlocks ==
    {a \o b \o c : a \in {<<>>, ReturnLabel}, b \in {<<>>, RealLabel},
                   c \in {<<>>, StdLabel}}

\* a div with a marked class, an unmarked div, and the whole block in a
\* div with a marked id
PageDivs ==
    {[cls |-> <<Word("data")>>, id |-> <<>>, text |-> t] : t \in PageBlocks}
        \cup {[cls |-> <<Word("box")>>, id |-> <<>>, text |-> t] :
                 t \in PageBlocks}
        \cup {[cls |-> <<>>, id |-> <<Word("result")>>, text |-> WholeBlock]}

\* the heads, and a title without a bar
PageHeads ==
    Heads \cup {[h1 |-> <<>>,
                 title |-> <<<<CapWord("lazy"), CapWord("portfolio")>>>>]}

PageDocs ==
    {Doc(NamedHead, ps, ds) : ps \in SeqsUpTo(PageParagraphs, MaxPageParas),
                              ds \in SeqsUpTo(PageDivs, MaxPageDivs)}
        \cup {Doc(h, ps, <<>>) : h \in PageHeads,
                                 ps \in {<<>>, <<GoodParagraph>>}}

\* the caller is about to call scrape_lazyportfolio_30y_metrics(eurl)
InitPage ==
    /\ AppIdle
    /\ urls = <<>>
    /\ web \in {[u \in URLs |-> pg] :
                   pg \in {Answer(200, d) : d \in PageDocs}
                             \cup {Answer(404, NoDoc)}}
    /\ i = 1
    /\ datos = <<>>
    /\ errors = <<>>
    /\ pc = "idle"
    /\ result = NoResult
    /\ epc = "call"
    /\ eurl \in URLs
    /\ nombre = NameNotFound
    /\ metrics = InitialMetrics
    /\ nparas = 0
    /\ nconts = 0
    /\ eout = NoOut
    /\ matched = FALSE

\* the call runs to its return or its raise
ScrapePage ==
    /\ epc = "call"
    /\ web[eurl].net # "hang"
    /\ eout' = Scrape(eurl, web[eurl])
    /\ epc' = "done"
    /\ UNCHANGED <<eurl, nombre, metrics, nparas, nconts, matched>>
    /\ UNCHANGED <<batchVars, appVars>>

NextPage == ScrapePage

SpecPage == InitPage /\ [][NextPage]_vars

----------------------------------------------------------------------------
(* The dashboard: the session state and the sidebar handlers of app.py     *)

\* an address the user types into "Add new URL"
UserUrl == "https://www.lazyportfolioetf.com/etf/vanguard-total-stock-market-vti/"
AppURLs == URLs \cup {UserUrl}

\* get_default_urls(), cut to the two addresses of the model
DefaultUrls == <<EtfUrl, AllocationUrl>>

\* a page with its metrics, a page without any, and an address that
\* answers 404
AppPages ==
    {Answer(200, Doc(NamedHead, <<GoodParagraph>>, <<>>)),
     Answer(200, NoDoc),
     Answer(404, NoDoc)}

InitApp ==
    /\ session_data = None
    /\ session_urls = DefaultUrls
    /\ session_errors = <<>>
    /\ ui = <<>>
    /\ urls = <<>>
    /\ web \in [AppURLs -> AppPages]
    /\ i = 1
    /\ datos = <<>>
    /\ errors = <<>>
    /\ pc = "idle"
    /\ result = NoResult
    /\ ExtractionIdle

InSeq(x, q) == \E k \in 1..Len(q) : q[k] = x

\* list.remove(x): the first occurrence goes
RECURSIVE RemoveFirst(_, _)
RemoveFirst(q, x) ==
    IF q = <<>> THEN <<>>
    ELSE IF Head(q) = x THEN Tail(q)
    ELSE <<Head(q)>> \o RemoveFirst(Tail(q), x)

\* the "Add URL" button
AddURL ==
    /\ pc = "idle"
    /\ \E new_url \in AppURLs :
          /\ ~ InSeq(new_url, session_urls)
          /\ session_urls' = Append(session_urls, new_url)
    /\ UNCHANGED <<session_data, session_errors, ui>>
    /\ UNCHANGED <<batchVars, extVars>>

\* the remove button next to an address
RemoveURL ==
    /\ pc = "idle"
    /\ \E k \in 1..Len(session_urls) :
          session_urls' = RemoveFirst(session_urls, session_urls[k])
    /\ UNCHANGED <<session_data, session_errors, ui>>
    /\ UNCHANGED <<batchVars, extVars>>

\* the "Fetch Data" button: the call of the batch on the session's urls
FetchData ==
    /\ pc = "idle"
    /\ urls' = session_urls
    /\ i' = 1
    /\ datos' = <<>>
    /\ errors' = <<>>
    /\ result' = NoResult
    /\ pc' = "fetch"
    /\ UNCHANGED web
    /\ UNCHANGED <<extVars, appVars>>

Message(kind, text, n, m, entries) ==
    [kind |-> kind, text |-> text, n |-> n, m |-> m, entries |-> entries]

\* errors[:3]
FirstThree(q) == SubSeq(q, 1, IF Len(q) < 3 THEN Len(q) ELSE 3)

\* FailureMessages without the branch on the error list
FailureMessagesSame(errs) ==
    <<Message("error", "Failed to fetch any data from the provided URLs.", 0, 0, <<>>),
      Message("error", "No data could be scraped. Check the error details below.", 0, 0, <<>>)>>

\* what the handler shows when the frame is empty
FailureMessages(errs) ==
    <<Message("error", "Failed to fetch any data from the provided URLs.", 0, 0, <<>>),
      Message("error", "No data could be scraped. Check the error details below.", 0, 0, <<>>)>>
    \o (IF errs # <<>>
        THEN <<Message("error", "First few errors:", 0, 0, FirstThree(errs))>>
                 \o (IF Len(errs) > 3
                     THEN <<Message("error", "...and more errors. See the Errors tab for details.",
                                    Len(errs) - 3, 0, <<>>)>>
                     ELSE <<>>)
        ELSE <<Message("error", "No specific errors were reported, but no data was fetched. Check URL format and website structure.",
                       0, 0, <<>>)>>)

\* what the handler shows when the frame has rows
SuccessMessages(df, errs) ==
    <<Message("success", "Successfully fetched data for assets!",
              Len(df), Len(errs), <<>>)>>

\* FetchDataDone that clears the stored data when the frame is empty
FetchDataDoneClearsData ==
    /\ pc = "returned"
    /\ IF result.df # <<>>
       THEN /\ session_data' = result.df
            /\ session_errors' = result.errors
            /\ ui' = SuccessMessages(result.df, result.errors)
       ELSE /\ session_errors' = result.errors
            /\ ui' = FailureMessages(result.errors)
            /\ session_data' = None
    /\ pc' = "idle"
    /\ UNCHANGED session_urls
    /\ UNCHANGED <<urls, web, i, datos, errors, result>>
    /\ UNCHANGED extVars

\* the rest of the "Fetch Data" handler, once the batch has returned
FetchDataDone ==
    /\ pc = "returned"
    /\ IF result.df # <<>>
       THEN /\ session_data' = result.df
            /\ session_errors' = result.errors
            /\ ui' = SuccessMessages(result.df, result.errors)
       ELSE /\ session_errors' = result.errors
            /\ ui' = FailureMessages(result.errors)
            /\ UNCHANGED session_data
    /\ pc' = "idle"
    /\ UNCHANGED session_urls
    /\ UNCHANGED <<urls, web, i, datos, errors, result>>
    /\ UNCHANGED extVars

\* "<phrase>" in error['error'], on messages and phrases made of words
InMessage(phrase, msg) ==
    \E k \in 1..(Len(msg) - Len(phrase) + 1) :
        SubSeq(msg, k, k + Len(phrase) - 1) = phrase

\* the troubleshooting suggestions the Debug tab draws under an error
Suggestions(error) ==
    IF InMessage(<<"Missing", "metrics">>, error.error)
    THEN "Possible causes:"
    ELSE IF InMessage(<<"Error", "fetching", "URL">>, error.error)
         THEN "Network or URL issues:"
         ELSE "none"

\* the tabs are drawn when there are data (the filters start wide open)
TabsShown == session_data # None

\* the "Scraping Errors" of the Debug tab: each stored error with its
\* suggestions
DebugTab ==
    IF TabsShown
    THEN [e \in 1..Len(session_errors) |->
             [error |-> session_errors[e],
              suggestions |-> Suggestions(session_errors[e])]]
    ELSE <<>>

NextApp ==
    \/ AddURL
    \/ RemoveURL
    \/ FetchData
    \/ Fetch
    \/ ExtractSource
    \/ Return
    \/ FetchDataDone

SpecApp == InitApp /\ [][NextApp]_vars

----------------------------------------------------------------------------
(* Properties                                                              *)

\* the outcome of the whole call for position k of the batch
Outcome(k) == Scrape(urls[k], web[urls[k]])

\* the records, and the failure entries, of positions 1..n in input order
RECURSIVE RecordsOf(_)
RecordsOf(n) ==
    IF n = 0 THEN <<>>
    ELSE LET o == Outcome(n)
         IN  IF o.kind = "record" THEN Append(RecordsOf(n - 1), o.rec)
             ELSE RecordsOf(n - 1)

RECURSIVE FailuresOf(_)
FailuresOf(n) ==
    IF n = 0 THEN <<>>
    ELSE LET o == Outcome(n)
         IN  IF o.kind = "raise"
             THEN Append(FailuresOf(n - 1), ErrorDetail(urls[n], o))
             ELSE FailuresOf(n - 1)

Is2xx(status) == 200 <= status /\ status < 300

HasText(msgs, t) == \E k \in 1..Len(msgs) : msgs[k].text = t

\* C1: every source position contributes exactly one outcome, a record or
\* a failure entry: while the loop is at position i the two lists hold
\* i - 1 entries together, and the returned lists hold Len(urls) entries.
C1_OneOutcomePerSource ==
    /\ pc \in {"fetch", "extract"} => Len(datos) + Len(errors) = i - 1
    /\ pc = "returned" =>
          /\ Len(result.df) + Len(result.errors) = Len(urls)
          /\ i = Len(urls) + 1

\* a batch of three positions, the first address given twice, has returned
\* with records and failures
C1_Witness ==
    /\ pc = "returned"
    /\ Len(urls) = 3
    /\ urls[1] = urls[3]
    /\ result.df # <<>>
    /\ result.errors # <<>>

\* C2: whatever a source raises, it becomes the failure entry {url, error}
\* of that source, the batch is never left by an exception, and every
\* source whose call succeeds has its record in the result, also after
\* failing sources.
C2_FailureIsolation ==
    /\ pc \in {"fetch", "extract", "returned"}
    /\ pc = "returned" =>
          \A k \in 1..Len(urls) :
              IF Outcome(k).kind = "raise"
              THEN InSeq([url |-> urls[k], error |-> Outcome(k).msg], result.errors)
              ELSE InSeq(Outcome(k).rec, result.df)

\* a returned batch in which a source raised an exception that is not the
\* scraper's own ValueError and a later source gave its record
C2_Witness ==
    /\ pc = "returned"
    /\ \E j, k \in 1..Len(urls) :
          /\ j < k
          /\ Outcome(j).kind = "raise"
          /\ Outcome(j).exc = "TypeError"
          /\ Outcome(k).kind = "record"
          /\ InSeq(Outcome(k).rec, result.df)

\* C3: a source whose fetch ends in a network-level failure or in a status
\* outside 2xx is never extracted; it has a transport failure entry and no
\* record.
C3_TransportFailureNotExtracted ==
    /\ pc = "extract" =>
          web[urls[i]].net = "ok" /\ Is2xx(web[urls[i]].status)
    /\ \A k \in 1..Len(urls) :
          (k < i /\ (web[urls[k]].net = "error" \/ ~ Is2xx(web[urls[k]].status))) =>
              /\ \E e \in 1..Len(errors) :
                    /\ errors[e].url = urls[k]
                    /\ SubSeq(errors[e].error, 1, 4)
                          = <<"Error", "fetching", "URL", urls[k]>>
              /\ \A r \in 1..Len(datos) : datos[r].url # urls[k]

\* C4: sources are processed one at a time in input order: whenever the
\* loop is at position i the lists hold exactly the outcomes of positions
\* 1..i-1 in input order, and so do the returned lists for all positions.
C4_InputOrder ==
    /\ pc \in {"fetch", "extract"} =>
          /\ i <= Len(urls) + 1
          /\ datos = RecordsOf(i - 1)
          /\ errors = FailuresOf(i - 1)
    /\ pc = "returned" =>
          /\ result.df = RecordsOf(Len(urls))
          /\ result.errors = FailuresOf(Len(urls))

\* a returned batch of three positions whose first two sources gave two
\* different records, returned in that order
C4_Witness ==
    /\ pc = "returned"
    /\ Len(urls) = 3
    /\ Outcome(1).kind = "record"
    /\ Outcome(2).kind = "record"
    /\ Outcome(1).rec # Outcome(2).rec
    /\ SubSeq(result.df, 1, 2) = <<Outcome(1).rec, Outcome(2).rec>>

\* C5: the batch always comes to return: as long as it has not returned, a
\* next step is possible.
C5_BatchReturns == pc = "returned" \/ ENABLED Next

NoSpecificErrors ==
    "No specific errors were reported, but no data was fetched. Check URL format and website structure."

\* C6: when every source of a non-empty batch fails, the batch returns no
\* record and one failure entry per source, and 'Fetch Data' shows the
\* first errors; when there is no source it returns no record and no
\* failure, and 'Fetch Data' shows that no specific error was reported;
\* neither shows the message of the other.
C6_TotalFailureDistinct ==
    /\ (pc = "returned" /\ \A k \in 1..Len(urls) : Outcome(k).kind = "raise") =>
          /\ result.df = <<>>
          /\ Len(result.errors) = Len(urls)
    /\ (pc = "idle" /\ ui # <<>> /\ result.df = <<>>) =>
          IF urls = <<>>
          THEN /\ result.errors = <<>>
               /\ HasText(ui, NoSpecificErrors)
               /\ ~ HasText(ui, "First few errors:")
          ELSE /\ Len(result.errors) = Len(urls)
               /\ HasText(ui, "First few errors:")
               /\ ~ HasText(ui, NoSpecificErrors)
               /\ session_errors = result.errors

\* 'Fetch Data' has ended on a batch of two sources that both failed
C6_Witness ==
    /\ pc = "idle"
    /\ Len(urls) >= 2
    /\ result.df = <<>>
    /\ Len(result.errors) = Len(urls)
    /\ HasText(ui, "First few errors:")

\* the names of the metrics that the scans left at None, nominal first
AbsentNames ==
    (IF metrics.nominal = None THEN <<"30Y nominal return">> ELSE <<>>)
        \o (IF metrics.std = None THEN <<"standard deviation">> ELSE <<>>)

\* C7: the extraction gives a record exactly when the nominal return and
\* the standard deviation were both resolved; otherwise it fails with the
\* missing-metrics error naming the absent ones, nominal first, and both
\* when no pattern matched anywhere in the page.
C7_Validation ==
    epc = "done" =>
        /\ eout.kind = "record" <=> (metrics.nominal # None /\ metrics.std # None)
        /\ eout.kind # "record" =>
              /\ eout.exc = "ValueError"
              /\ eout.msg = <<"Missing", "critical", "metrics", "for", eurl, ":">>
                               \o Join(AbsentNames)
        /\ ~ matched =>
              /\ eout.kind = "raise"
              /\ AbsentNames = <<"30Y nominal return", "standard deviation">>

\* C8: when a nominal return and a standard deviation are resolved, zero
\* included, the extraction gives a record whose real_30y_return is not
\* None.
C8_RealReturnPopulated ==
    (epc = "done" /\ metrics.nominal # None /\ metrics.std # None) =>
        /\ eout.kind = "record"
        /\ eout.rec.real_30y_return # None

\* C9: in every record is_real_return_estimated is true exactly when no
\* real return was found on the page and real_30y_return is the nominal
\* return minus 3.0; a real return found on the page is in the record
\* unchanged, with the flag false.
C9_FlagMeansEstimated ==
    (epc = "done" /\ eout.kind = "record") =>
        /\ eout.rec.is_real_return_estimated <=>
              /\ metrics.real = None
              /\ eout.rec.real_30y_return
                    = Some(Val(eout.rec.nominal_30y_return) - Inflation)
        /\ metrics.real # None =>
              /\ eout.rec.real_30y_return = metrics.real
              /\ ~ eout.rec.is_real_return_estimated

\* C10: in every record is_real_return_estimated is true if and only if
\* real_30y_return equals nominal_30y_return - 3.0.
C10_FlagIffDifference ==
    (epc = "done" /\ eout.kind = "record") =>
        (eout.rec.is_real_return_estimated <=>
            eout.rec.real_30y_return
                = Some(Val(eout.rec.nominal_30y_return) - Inflation))

\* a record whose real return is the estimate, with the flag set
C10_Witness ==
    /\ epc = "done"
    /\ eout.kind = "record"
    /\ metrics.real = None
    /\ eout.rec.real_30y_return = Some(Val(eout.rec.nominal_30y_return) - Inflation)
    /\ eout.rec.is_real_return_estimated


\* q is the fraction a / b
IsRatio(q, a, b) == q[2] > 0 /\ q[1] * b = q[2] * a

\* C11: once both the nominal return and the standard deviation are
\* resolved, computing the two ratios raises nothing and a record is
\* returned; in it, when the standard deviation is not 0, nominal_sharpe
\* is the nominal return over the standard deviation and real_sharpe the
\* real return over the standard deviation, and when the standard deviation
\* is 0 both ratios are 0.
C11_SharpeRatios ==
    (epc = "done" /\ metrics.nominal # None /\ metrics.std # None) =>
        /\ eout.kind = "record"
        /\ Val(eout.rec.std_deviation) # 0 =>
              /\ IsRatio(eout.rec.nominal_sharpe,
                         Val(eout.rec.nominal_30y_return),
                         Val(eout.rec.std_deviation))
              /\ eout.rec.real_30y_return # None
              /\ IsRatio(eout.rec.real_sharpe,
                         Val(eout.rec.real_30y_return),
                         Val(eout.rec.std_deviation))
        /\ Val(eout.rec.std_deviation) = 0 =>
              /\ eout.rec.nominal_sharpe = <<0, 1>>
              /\ eout.rec.real_sharpe = <<0, 1>>


\* the page of a finished call, and its only div
PageDoc == web[eurl].doc
OnlyDiv == PageDoc.divs[1]
CallDone == epc = "done" /\ web[eurl].status = 200

\* C12: a page whose metrics are in one marked block labelled '30Y Return
\* X%', '30Y Inflation Adjusted Return R%' and 'Std Deviation S%' yields a
\* record with nominal return X, real return R and standard deviation S,
\* and the flag false.
C12_StructuredBlock ==
    (/\ CallDone
     /\ PageDoc.paras = <<>>
     /\ Len(PageDoc.divs) = 1
     /\ OnlyDiv.text = WholeBlock
     /\ IsMarked(OnlyDiv.cls) \/ IsMarked(OnlyDiv.id)) =>
        /\ eout.kind = "record"
        /\ eout.rec.nominal_30y_return = Some(19)
        /\ eout.rec.real_30y_return = Some(12)
        /\ eout.rec.std_deviation = Some(28)
        /\ eout.rec.is_real_return_estimated = FALSE


\* text reads "<X>% compound annual return with a <Y>% standard deviation"
\* in some letter case
IsNarrative(text) ==
    /\ Len(text) = 9
    /\ text[1].kind = "pct"
    /\ PhraseAt(Lower(text), CompoundAnnualReturn, 2)
    /\ PhraseAt(Lower(text), <<"with", "a">>, 5)
    /\ text[7].kind = "pct"
    /\ PhraseAt(Lower(text), StandardDeviation, 8)

OnlyParagraph == PageDoc.paras[1]

\* C13: a page whose only metric text is a paragraph "<X>% compound annual
\* return with a <Y>% standard deviation", in any letter case and without
\* inflation-adjusted figure, yields a record with nominal return X,
\* standard deviation Y, real return X - 3.0 and the flag true; a page
\* whose only paragraph lacks one of the two phrases yields no value.
C13_NarrativeParagraph ==
    (CallDone /\ PageDoc.divs = <<>> /\ Len(PageDoc.paras) = 1) =>
        /\ IsNarrative(OnlyParagraph) =>
              /\ eout.kind = "record"
              /\ eout.rec.nominal_30y_return =
                    Some(ParseFloat(OnlyParagraph[1]))
              /\ eout.rec.std_deviation = Some(ParseFloat(OnlyParagraph[7]))
              /\ eout.rec.real_30y_return =
                    Some(ParseFloat(OnlyParagraph[1]) - Inflation)
              /\ eout.rec.is_real_return_estimated = TRUE
        /\ (~ Contains(Lower(OnlyParagraph), CompoundAnnualReturn)
              \/ ~ Contains(Lower(OnlyParagraph), StandardDeviation)) =>
              /\ eout.kind = "raise"
              /\ eout.msg = MissingMetricsError(eurl, InitialMetrics).msg


\* a record, and a failure entry, without the address they were asked for
RecordModuloUrl(r) == [r EXCEPT !.url = ""]
FailureModuloUrl(f) ==
    [url |-> "",
     error |-> [n \in DOMAIN f.error |->
                   IF f.error[n] = f.url THEN "" ELSE f.error[n]]]

\* C14: extraction is stateless and idempotent: at every point of a batch,
\* two sources that answer the same page have the same outcome, whatever
\* their positions and whatever was processed between them: both a record
\* or both a failure, identical but for the address, and fully identical
\* when the address is the same.
C14_Idempotent ==
    /\ \A a, b \in 1..Len(datos) :
          web[datos[a].url] = web[datos[b].url] =>
             /\ RecordModuloUrl(datos[a]) = RecordModuloUrl(datos[b])
             /\ datos[a].url = datos[b].url => datos[a] = datos[b]
    /\ \A a, b \in 1..Len(errors) :
          web[errors[a].url] = web[errors[b].url] =>
             /\ FailureModuloUrl(errors[a]) = FailureModuloUrl(errors[b])
             /\ errors[a].url = errors[b].url => errors[a] = errors[b]
    /\ \A a \in 1..Len(datos), b \in 1..Len(errors) :
          web[datos[a].url] # web[errors[b].url]

\* a returned batch that asked for the same source twice with another
\* source, which failed, in between, and got the same record twice
C14_Witness ==
    /\ pc = "returned"
    /\ Len(urls) = 3
    /\ urls[1] = urls[3]
    /\ urls[1] # urls[2]
    /\ Len(result.errors) = 1
    /\ result.errors[1].url = urls[2]
    /\ Len(result.df) = 2
    /\ result.df[1] = result.df[2]


\* name is text up to its first "|", or all of it when it has none
IsCutAtBar(name, text) ==
    \E k \in 0..Len(text) :
        /\ name = SubSeq(text, 1, k)
        /\ \A j \in 1..k : text[j] # Word("|")
        /\ k = Len(text) \/ text[k + 1] = Word("|")

\* C15: the name of a record is the text of the h1 of the page when it has
\* one; if not, its title cut at the first '|' when it has a title; if not,
\* 'Name not found'.  The head of the page has no part in the rest of the
\* outcome: with any other h1 and title the same page gives the same
\* failure, or the same record but for the name.
C15_NameResolution ==
    CallDone =>
        /\ eout.kind = "record" =>
              IF PageDoc.h1 # <<>> THEN eout.rec.name = PageDoc.h1[1]
              ELSE IF PageDoc.title # <<>>
                   THEN IsCutAtBar(eout.rec.name, PageDoc.title[1])
                   ELSE eout.rec.name = NameNotFound
        /\ \A h \in PageHeads :
              LET other == Extract(eurl, Doc(h, PageDoc.paras, PageDoc.divs))
              IN  IF eout.kind = "record"
                  THEN /\ other.kind = "record"
                       /\ [other.rec EXCEPT !.name = eout.rec.name] = eout.rec
                  ELSE other = eout

\* a record named after the title of a page without h1, cut at its bar
C15_Witness ==
    /\ CallDone
    /\ eout.kind = "record"
    /\ PageDoc.h1 = <<>>
    /\ PageDoc.title = <<<<CapWord("spy"), Word("|"), CapWord("lazy")>>>>
    /\ eout.rec.name = <<CapWord("spy")>>


\* C16: first match wins across the whole extraction: a metric that holds
\* a value, 0.0 included, keeps it through every later paragraph and
\* container, and the record returned holds that value.
C16_FirstMatchWins ==
    [][/\ \A f \in {"nominal", "real", "std"} :
             metrics[f] # None => metrics'[f] = metrics[f]
       /\ (epc' = "done" /\ eout'.kind = "record") =>
             /\ eout'.rec.nominal_30y_return = metrics.nominal
             /\ eout'.rec.std_deviation = metrics.std
             /\ metrics.real # None =>
                   eout'.rec.real_30y_return = metrics.real]_vars


\* C17: on a page without metric paragraph whose only div has a marked
\* class or id, the nominal return is the first percentage after a return
\* token of the div and the standard deviation the first percentage after
\* a deviation token, each resolved whether or not the other is: the call
\* returns a record with the two when both are there, and if not its
\* failure names exactly the metrics that have no token in the div.
C17_GenericContainers ==
    (/\ CallDone
     /\ PageDoc.paras = <<>>
     /\ Len(PageDoc.divs) = 1
     /\ IsMarked(OnlyDiv.cls) \/ IsMarked(OnlyDiv.id)) =>
        LET nominal == KeywordNumeral(Lower(OnlyDiv.text), ReturnKeywords)
            std == KeywordNumeral(Lower(OnlyDiv.text), StdKeywords)
        IN  IF nominal # None /\ std # None
            THEN /\ eout.kind = "record"
                 /\ eout.rec.nominal_30y_return = nominal
                 /\ eout.rec.std_deviation = std
            ELSE /\ eout.kind = "raise"
                 /\ eout.msg =
                       MissingMetricsError(eurl, [nominal |-> nominal,
                                                  real |-> None,
                                                  std |-> std]).msg


\* C18: once a 'Fetch Data' has ended, the stored errors and the stored
\* data come from the same run of the batch, the latest: the records shown
\* never come from an earlier run than the errors.
C18_SessionConsistent ==
    (pc = "idle" /\ ui # <<>>) =>
        /\ session_errors = result.errors
        /\ session_data # None => session_data = result.df

\* C18, amended: the end of a 'Fetch Data' stores the errors of its run,
\* and stores the records of its run when there is at least one; when
\* there is none the data stored before are kept; nothing else changes
\* the stored data or errors.
C18_DataOfLastRunWithRecords ==
    [][IF pc = "returned" /\ pc' = "idle"
       THEN /\ session_errors' = result.errors
            /\ session_data' =
                  IF result.df # <<>> THEN result.df ELSE session_data
       ELSE /\ session_errors' = session_errors
            /\ session_data' = session_data]_vars

\* a 'Fetch Data' has ended on a run without record, after an earlier run
\* with records: the session holds the errors of the latest run and the
\* records of the earlier one
C18_Witness ==
    /\ pc = "idle"
    /\ ui # <<>>
    /\ result.df = <<>>
    /\ result.errors # <<>>
    /\ session_errors = result.errors
    /\ session_data # None


\* C19: every failure entry of a batch is in exactly one of the two
\* categories of the Debug tab: under a missing-metrics failure the tab
\* draws the missing-metrics suggestions, under a fetch failure the network
\* suggestions, and no entry is left without suggestions.
C19_EveryFailureClassified ==
    (pc = "idle" /\ TabsShown) =>
        /\ Len(DebugTab) = Len(session_errors)
        /\ \A e \in 1..Len(DebugTab) :
              LET msg == DebugTab[e].error.error
              IN  /\ DebugTab[e].suggestions # "none"
                  /\ SubSeq(msg, 1, 3) = <<"Missing", "critical", "metrics">>
                        => DebugTab[e].suggestions = "Possible causes:"
                  /\ SubSeq(msg, 1, 3) = <<"Error", "fetching", "URL">>
                        => DebugTab[e].suggestions = "Network or URL issues:"

====
